---- MODULE Spec2Model ----
(***************************************************************************)
(* A model of src/src/app.js: an Express application with a JSON body      *)
(* parser, a static-file stage, three routes, an error-handling middleware  *)
(* and a 404 fallback, started as a listener only when run as the main      *)
(* module.  A request passes over the middleware stack in registration      *)
(* order; it waits in the body parser for its body and in the static stage  *)
(* for the file-system lookup, and other requests are received and          *)
(* answered, and the clocks move, while it waits.  The static stage is      *)
(* that of serve-static with its defaults: files, the index file of a       *)
(* directory, the redirect to a directory, dotfiles, conditional and range  *)
(* requests.                                                                *)
(***************************************************************************)
EXTENDS FiniteSets, Integers, Sequences, TLC

VARIABLES
    phase,      \* "boot" before the module is evaluated, "loaded" after
    isMain,     \* require.main === module
    envPort,    \* process.env.PORT (Unset when the variable is absent)
    server,     \* the listener: listening, port, announced (console.log done)
    public,     \* the paths of the files under ./public
    wall,       \* the system wall clock, epoch milliseconds (Date.now())
    mono,       \* monotonic ticks since process start (process.uptime())
    inflight,   \* the requests that wait in a layer of the stack
    req,        \* the request answered by the last step, if it answered one
    res,        \* the response to it
    prevHealth, \* history: the /health body sent before the one in res
    prevCreated, \* history: the 201 body sent before the one in res
    setBack     \* history: was the wall clock set back since the last /health
                \* body was built (since), and between the last two (between)

vars == <<phase, isMain, envPort, server, public, wall, mono, inflight, req, res,
          prevHealth, prevCreated, setBack>>

-----------------------------------------------------------------------------
(* Bounds of the model *)

\* requests that wait in the stack at once
MaxInflight == 2
\* monotonic ticks the process is observed for
MaxMono == 1
\* milliseconds of monotonic time per tick
TickMs == 600

\* wall-clock readings, epoch milliseconds: 999 .. 999 + MaxWall (across a
\* boundary of seconds)
MaxWall == 1
ClockValues == 999 .. (999 + MaxWall)

-----------------------------------------------------------------------------
(* JSON values as JavaScript sees them *)

Undefined == [t |-> "undefined"]
JNull == [t |-> "null"]
JBool(b) == [t |-> "boolean", b |-> b]
JNum(n) == [t |-> "number", n |-> n]
JStr(s) == [t |-> "string", s |-> s]

\* JavaScript truthiness, as used by `!name || !email`
Truthy(v) ==
    CASE v.t = "undefined" -> FALSE
      [] v.t = "null" -> FALSE
      [] v.t = "boolean" -> v.b
      [] v.t = "number" -> v.n # 0
      [] v.t = "string" -> v.s # ""
      [] OTHER -> TRUE

-----------------------------------------------------------------------------
(* Time *)

\* Date.prototype.toISOString: the UTC calendar fields of an epoch-millisecond
\* instant, most significant first (YYYY-MM-DDTHH:mm:ss.sssZ)
ToISOString(ms) ==
    LET days == ms \div 86400000
        rem == ms % 86400000
        z == days + 719468
        era == z \div 146097
        doe == z - era * 146097
        yoe == (doe - doe \div 1460 + doe \div 36524 - doe \div 146096) \div 365
        doy == doe - (365 * yoe + yoe \div 4 - yoe \div 100)
        mp == (5 * doy + 2) \div 153
        d == doy - (153 * mp + 2) \div 5 + 1
        m == IF mp < 10 THEN mp + 3 ELSE mp - 9
        y == yoe + era * 400 + (IF m <= 2 THEN 1 ELSE 0)
    IN  <<y, m, d, rem \div 3600000, (rem \div 60000) % 60,
          (rem \div 1000) % 60, rem % 1000>>

\* process.uptime(): seconds since process start, whole part and
\* milliseconds of the fraction
Uptime(ticks) ==
    LET ms == ticks * TickMs
    IN  [whole |-> ms \div 1000, frac |-> ms % 1000]

\* order of two ISO timestamps (field by field, which is the order of the
\* strings) and of two uptimes
RECURSIVE LexLeq(_, _)
LexLeq(a, b) ==
    IF a = <<>> THEN TRUE
    ELSE IF Head(a) # Head(b) THEN Head(a) < Head(b)
    ELSE LexLeq(Tail(a), Tail(b))

UptimeLeq(a, b) == LexLeq(<<a.whole, a.frac>>, <<b.whole, b.frac>>)

-----------------------------------------------------------------------------
(* Requests *)

Methods == {"GET", "HEAD", "POST", "OPTIONS"}

Path(segs, slash) == [segs |-> segs, slash |-> slash]
HealthPath == Path(<<"health">>, FALSE)
HealthPathVariant == Path(<<"Health">>, TRUE)
UsersPath == Path(<<"api", "users">>, FALSE)
IndexPath == Path(<<"index.html">>, FALSE)
NoSuchPath == Path(<<"no-such-route">>, FALSE)
\* "/", "/api", "/api/" and "/.env"
RootPath == Path(<<>>, TRUE)
ApiPath == Path(<<"api">>, FALSE)
ApiSlashPath == Path(<<"api">>, TRUE)
EnvPath == Path(<<".env">>, FALSE)
Paths == {HealthPath, HealthPathVariant, UsersPath, IndexPath, NoSuchPath,
          RootPath, ApiPath, ApiSlashPath, EnvPath}

\* what the request carries: no body at all, a body that is not declared as
\* JSON, JSON text that does not parse, a JSON primitive, a JSON array, or a
\* JSON object with (some of) the fields name and email
NoBody == [kind |-> "none"]
TextBody == [kind |-> "text"]
MalformedBody == [kind |-> "malformed"]
PrimitiveBody == [kind |-> "primitive"]
ArrayBody == [kind |-> "array"]
ObjectBody(name, email) == [kind |-> "object", name |-> name, email |-> email]

NameValues == {Undefined, JNull, JStr(""), JStr("Alice"), JNum(7)}
EmailValues == {Undefined, JBool(FALSE), JNum(0), JStr("a@x.com"), JBool(TRUE)}
AliceBody == ObjectBody(JStr("Alice"), JStr("a@x.com"))

\* each value of one field with a valid other field, both fields missing,
\* and both fields truthy without being strings
UserBodies ==
    {NoBody, TextBody, MalformedBody, PrimitiveBody, ArrayBody}
    \cup {ObjectBody(n, JStr("a@x.com")) : n \in NameValues}
    \cup {ObjectBody(JStr("Alice"), e) : e \in EmailValues}
    \cup {ObjectBody(Undefined, Undefined), ObjectBody(JNum(7), JBool(TRUE))}

\* the conditional and range headers of a request: none; If-None-Match: *;
\* If-Match with an entity tag that is not the file's; a Range the file
\* satisfies; a Range that starts past the end of the file
Conditions == {"none", "if-none-match", "if-match", "range", "range-beyond"}

Request(method, path, body, cond) ==
    [method |-> method, path |-> path, body |-> body, cond |-> cond]

\* the users API: POST /api/users with every body, GET /api/users
UsersRequests ==
    {Request("POST", UsersPath, b, "none") : b \in UserBodies}
    \cup {Request("GET", UsersPath, b, "none") : b \in {NoBody, MalformedBody}}
    \cup {Request("GET", UsersPath, NoBody, "if-none-match")}

\* routing: the methods on the paths, bodies that parse and that do not
RoutingRequests ==
    {Request("GET", p, NoBody, "none") : p \in Paths}
    \cup {Request("HEAD", p, NoBody, "none") : p \in {HealthPath, NoSuchPath, ApiPath}}
    \cup {Request("POST", p, NoBody, "none") : p \in {HealthPath, UsersPath, RootPath}}
    \cup {Request("OPTIONS", p, NoBody, "none") : p \in {UsersPath, ApiPath}}
    \cup {Request("GET", p, MalformedBody, "none") : p \in {HealthPath, NoSuchPath}}
    \cup {Request("GET", NoSuchPath, NoBody, "if-none-match"),
          Request("GET", IndexPath, NoBody, "if-match")}
    \cup {Request("POST", UsersPath, b, "none") : b \in {AliceBody, PrimitiveBody}}

\* the static stage: the methods on a file, with and without conditional
\* and range headers, on the routes a file or a directory may hide, on
\* directories and on a dotfile
StaticRequests ==
    {Request("GET", IndexPath, NoBody, c) : c \in Conditions}
    \cup {Request(m, IndexPath, NoBody, "none") : m \in {"HEAD", "POST", "OPTIONS"}}
    \cup {Request("HEAD", IndexPath, NoBody, "if-none-match"),
          Request("GET", IndexPath, MalformedBody, "none")}
    \cup {Request("GET", p, NoBody, "none") :
             p \in {HealthPath, UsersPath, RootPath, ApiPath, ApiSlashPath, EnvPath}}
    \cup {Request("POST", UsersPath, AliceBody, "none")}

\* the health check, with requests that create users in between
HealthRequests ==
    {Request("GET", HealthPath, b, "none") : b \in {NoBody, AliceBody, MalformedBody}}
    \cup {Request("GET", HealthPath, NoBody, "if-none-match"),
          Request("GET", HealthPathVariant, NoBody, "none"),
          Request("POST", UsersPath, AliceBody, "none")}

Requests == UsersRequests \cup RoutingRequests \cup StaticRequests \cup HealthRequests

-----------------------------------------------------------------------------
(* Responses *)

None == [kind |-> "none"]

ErrorBody(msg) == [kind |-> "error", error |-> msg]
FileBody(segs) == [kind |-> "file", file |-> segs]
EmptyBody == [kind |-> "empty"]
PartialBody(segs) == [kind |-> "partial", file |-> segs]
RedirectBody(to) == [kind |-> "redirect", location |-> to]
HtmlBody(detail) == [kind |-> "html", detail |-> detail]

\* res.status(s).json(body), sent by layer `stage`; `logged` is whether
\* console.error was called, `at` the wall-clock reading of a handler that
\* read the clock (0 for a response that does not depend on it)
Response(status, type, body, stage, logged, at) ==
    [status |-> status, type |-> type, body |-> body, stage |-> stage,
     logged |-> logged, at |-> at]
Json(status, body, stage, at) == Response(status, "json", body, stage, FALSE, at)

NoRequest == Request("NONE", NoSuchPath, NoBody, "none")
NoResponse == Response(0, "none", None, "none", FALSE, 0)

-----------------------------------------------------------------------------
(* The middleware stack of app.js *)

\* express.json(): the value of req.body after the parser, or the error it
\* passes on.  A request without a body, or whose body is not declared as
\* JSON, is not parsed: req.body is then `unparsed` ({} in Express 4,
\* undefined in Express 5).  In strict mode only objects and arrays parse.
EmptyObject == [t |-> "object", name |-> Undefined, email |-> Undefined]
UnparsedBodies == {EmptyObject, Undefined}

JsonParser(r, unparsed) ==
    CASE r.body.kind \in {"none", "text"} -> [err |-> FALSE, body |-> unparsed]
      [] r.body.kind \in {"malformed", "primitive"} -> [err |-> TRUE, body |-> unparsed]
      [] r.body.kind = "array" -> [err |-> FALSE, body |-> [t |-> "array"]]
      [] OTHER -> [err |-> FALSE,
                   body |-> [t |-> "object", name |-> r.body.name, email |-> r.body.email]]

\* property access on req.body: an absent property reads as undefined
Prop(body, key) ==
    IF body.t = "object"
    THEN (IF key = "name" THEN body.name ELSE body.email)
    ELSE Undefined

\* the entries of ./public: the files are given by their paths, and the
\* directories are the proper prefixes of those paths (the top directory
\* exists when it holds a file)
IsFile(segs, files) == segs \in files
IsDirectory(segs, files) ==
    \E f \in files : Len(f) > Len(segs) /\ SubSeq(f, 1, Len(segs)) = segs

\* send's default for dotfiles, 'ignore': a path whose last segment starts
\* with a dot is treated as not found (the deployments hold dotfiles as
\* files of the top directory only, where the rule of send 0.x, the last
\* segment, and that of send 1.x, any segment, agree)
DotNames == {".env"}
ContainsDotFile(path) ==
    path.segs # <<>> /\ path.segs[Len(path.segs)] \in DotNames

\* what the file-system lookups of send find for the path: a path with a
\* trailing slash names the index file of a directory (index: 'index.html'),
\* a path without one names a file, or a directory to redirect to
StaticLookup(path, files) ==
    IF ContainsDotFile(path) THEN [kind |-> "none"]
    ELSE IF path.slash
    THEN (IF IsFile(path.segs \o <<"index.html">>, files)
          THEN [kind |-> "file", file |-> path.segs \o <<"index.html">>]
          ELSE [kind |-> "none"])
    ELSE IF IsFile(path.segs, files) THEN [kind |-> "file", file |-> path.segs]
    ELSE IF IsDirectory(path.segs, files) THEN [kind |-> "directory"]
    ELSE [kind |-> "none"]

Static(status, type, body) == Response(status, type, body, "static", FALSE, 0)

\* send of a file that was found: a failed precondition is an error (412),
\* a fresh conditional request gets 304 without content, a range past the
\* end is an error (416), a range that is satisfied gets 206 with the part,
\* and every other request 200 with the file
SendFile(r, file) ==
    CASE r.cond = "if-match" -> [kind |-> "error", status |-> 412]
      [] r.cond = "if-none-match" ->
           [kind |-> "answer", resp |-> Static(304, "none", EmptyBody)]
      [] r.cond = "range-beyond" -> [kind |-> "error", status |-> 416]
      [] r.cond = "range" ->
           [kind |-> "answer", resp |-> Static(206, "file", PartialBody(file))]
      [] OTHER ->
           [kind |-> "answer", resp |-> Static(200, "file", FileBody(file))]

\* express.static('public'), serve-static with its defaults: methods other
\* than GET and HEAD are passed on (fallthrough); a directory asked without
\* a trailing slash is redirected to the path with one (redirect); what is
\* not found is passed on; an error raised once a file was found is passed
\* on as an error
ServeStatic(r, files) ==
    IF r.method \notin {"GET", "HEAD"} THEN [kind |-> "pass"]
    ELSE LET found == StaticLookup(r.path, files)
         IN  CASE found.kind = "file" -> SendFile(r, found.file)
               [] found.kind = "directory" ->
                    [kind |-> "answer",
                     resp |-> Static(301, "html",
                                     RedirectBody(Path(r.path.segs, TRUE)))]
               [] OTHER -> [kind |-> "pass"]

\* req.fresh as res.send evaluates it for a response that has an ETag and
\* no Last-Modified: a GET or HEAD with If-None-Match: * whose status is 2xx
Fresh(r, status) ==
    /\ r.method \in {"GET", "HEAD"}
    /\ status \in 200..299
    /\ r.cond = "if-none-match"

\* res.json(body), that is res.send: a fresh response is sent as 304
\* without content
ResSend(r, resp) ==
    IF Fresh(r, resp.status)
    THEN [resp EXCEPT !.status = 304, !.type = "none", !.body = EmptyBody]
    ELSE resp

\* Express route matching: the path is compared case-insensitively and a
\* trailing slash is accepted; a GET route also answers HEAD
LowerCase(s) == IF s = "Health" THEN "health" ELSE s
PathMatches(route, path) ==
    /\ Len(path.segs) = Len(route)
    /\ \A i \in 1..Len(route) : LowerCase(path.segs[i]) = route[i]
\* (variant: the route registered for every method, app.all)
MethodMatchesAll(routeMethod, method) == TRUE
MethodMatches(routeMethod, method) ==
    \/ method = routeMethod
    \/ (routeMethod = "GET" /\ method = "HEAD")
RouteMatches(routeMethod, route, r) ==
    MethodMatches(routeMethod, r.method) /\ PathMatches(route, r.path)

\* app.get('/health')
\* (variant: uptime taken from the wall clock, Date.now() - start)
HealthBodyWallUptime(now, up) ==
    [kind |-> "health", status |-> "healthy", timestamp |-> ToISOString(now),
     uptime |-> [whole |-> (now - 999) \div 1000, frac |-> (now - 999) % 1000]]
HealthBody(now, up) ==
    [kind |-> "health", status |-> "healthy", timestamp |-> ToISOString(now),
     uptime |-> Uptime(up)]
HealthHandler(now, up) == Json(200, HealthBody(now, up), "health", now)

\* app.get('/api/users')
User(id, name, email) == [id |-> id, name |-> name, email |-> email]
\* (variant: the user created by the previous request is kept and listed)
UsersListWithCreated ==
    LET fixed == <<User(1, JStr("John Doe"), JStr("john@example.com")),
                   User(2, JStr("Jane Smith"), JStr("jane@example.com"))>>
    IN  IF res.status = 201 THEN Append(fixed, res.body.user) ELSE fixed
UsersList ==
    <<User(1, JStr("John Doe"), JStr("john@example.com")),
      User(2, JStr("Jane Smith"), JStr("jane@example.com"))>>
GetUsersHandler ==
    Json(200, [kind |-> "users", list |-> UsersList], "getUsers", 0)

\* app.post('/api/users')
\* (variant: `!name && !email`)
InvalidOnlyWhenBothMissing(name, email) == ~Truthy(name) /\ ~Truthy(email)
Invalid(name, email) == ~Truthy(name) \/ ~Truthy(email)
\* (variant: id in seconds, Date.now() / 1000 rounded down)
NewUserIdInSeconds(now, name, email) == User(now \div 1000, name, email)
\* (variant: an id already given to the last user created is stepped past)
NewUserUniqueId(now, name, email) ==
    LET last == IF res.status = 201 THEN res.body.user.id
                ELSE IF prevCreated.kind = "created" THEN prevCreated.id
                ELSE 0
    IN  User(IF last = now THEN now + 1 ELSE now, name, email)
NewUser(now, name, email) == User(now, name, email)
PostUsersHandler(body, now) ==
    LET name == Prop(body, "name")
        email == Prop(body, "email")
    IN  IF Invalid(name, email)
        THEN Json(400, ErrorBody("Name and email are required"), "postUsers", 0)
        ELSE Json(201, [kind |-> "user", user |-> NewUser(now, name, email)],
                  "postUsers", now)
\* `const { name, email } = req.body` throws when req.body is undefined
PostUsersThrows(body) == body.t = "undefined"

\* the error-handling middleware: console.error(err.stack), then 500
ErrorHandler ==
    Response(500, "json", ErrorBody("Something went wrong!"), "errorHandler", TRUE, 0)

\* the 404 handler
NotFoundHandler == Json(404, ErrorBody("Route not found"), "notFound", 0)

\* Express's own last resort, when the stack is exhausted: an HTML page
\* (with the stack trace of a pending error outside production)
FinalHandler(err) ==
    IF err
    THEN Response(500, "html", HtmlBody("stack"), "final", TRUE, 0)
    ELSE Response(404, "html", HtmlBody("cannot"), "final", FALSE, 0)

\* (variants: the error handler registered first; the 404 handler
\* registered before the routes; the static stage registered after them)
StackErrorHandlerFirst ==
    <<"errorHandler", "json", "static", "health", "getUsers", "postUsers", "notFound">>
StackNotFoundBeforeRoutes ==
    <<"json", "static", "notFound", "health", "getUsers", "postUsers", "errorHandler">>
StackStaticAfterRoutes ==
    <<"json", "health", "getUsers", "postUsers", "static", "errorHandler", "notFound">>
\* the layers in registration order
Stack ==
    <<"json", "static", "health", "getUsers", "postUsers", "errorHandler", "notFound">>

\* express.json() reads the body stream of a request whose body is
\* declared as JSON, and express.static looks the path of a GET or HEAD up
\* in the file system (a dotfile is refused before any lookup): both return
\* to the event loop and go on in a callback
NeedsRead(r) == r.body.kind \in {"malformed", "primitive", "array", "object"}
LooksUp(r) == r.method \in {"GET", "HEAD"} /\ ~ContainsDotFile(r.path)

\* the outcome of a pass over the stack: a response, or the layer the
\* request waits in
Answered(resp) == [done |-> TRUE, at |-> 0, resp |-> resp]
Suspended(i) == [done |-> FALSE, at |-> i, resp |-> NoResponse]

\* One pass over the stack from layer i on, until a response is written or
\* a layer waits for I/O (`resumed`: the wait of layer i is over).  With an
\* error pending only error-handling middleware runs; without one it is
\* skipped.  The handlers read the clocks of env, those of the pass, and
\* answer with res.json.
RECURSIVE Dispatch(_, _, _, _, _, _)
Dispatch(i, err, body, r, env, resumed) ==
    IF i > Len(Stack) THEN Answered(FinalHandler(err))
    ELSE LET layer == Stack[i]
             next == Dispatch(i + 1, err, body, r, env, FALSE)
         IN
         IF layer = "errorHandler"
         THEN (IF err THEN Answered(ResSend(r, ErrorHandler)) ELSE next)
         ELSE IF err THEN next
         ELSE CASE layer = "json" ->
                IF NeedsRead(r) /\ ~resumed THEN Suspended(i)
                ELSE LET p == JsonParser(r, env.unparsed)
                     IN  Dispatch(i + 1, p.err, p.body, r, env, FALSE)
           [] layer = "static" ->
                IF LooksUp(r) /\ ~resumed THEN Suspended(i)
                ELSE LET s == ServeStatic(r, env.files)
                     IN  CASE s.kind = "answer" -> Answered(s.resp)
                           [] s.kind = "error" ->
                                Dispatch(i + 1, TRUE, body, r, env, FALSE)
                           [] OTHER -> next
           [] layer = "health" ->
                IF RouteMatches("GET", <<"health">>, r)
                THEN Answered(ResSend(r, HealthHandler(env.now, env.up))) ELSE next
           [] layer = "getUsers" ->
                IF RouteMatches("GET", <<"api", "users">>, r)
                THEN Answered(ResSend(r, GetUsersHandler)) ELSE next
           [] layer = "postUsers" ->
                IF RouteMatches("POST", <<"api", "users">>, r)
                THEN (IF PostUsersThrows(body)
                      THEN Dispatch(i + 1, TRUE, body, r, env, FALSE)
                      ELSE Answered(ResSend(r, PostUsersHandler(body, env.now))))
                ELSE next
           [] OTHER -> Answered(ResSend(r, NotFoundHandler))

\* req.body of a request that waits in layer i: what express.json() left
\* there if it ran before that layer
BodyBefore(i, r, unparsed) ==
    IF \E j \in 1..(i - 1) : Stack[j] = "json"
    THEN JsonParser(r, unparsed).body
    ELSE Undefined

\* the response as it leaves the server: a HEAD request gets the status and
\* headers of the response without its body
Send(r, resp) ==
    IF r.method = "HEAD" THEN [resp EXCEPT !.body = EmptyBody] ELSE resp

-----------------------------------------------------------------------------
(* The process *)

\* `process.env.PORT || 3000`
DefaultPort == 3000
Port(env) == IF Truthy(env) THEN env ELSE JNum(DefaultPort)

\* `if (require.main === module)`
\* (variant: the listener started unconditionally)
ShouldListenAlways(main) == TRUE
ShouldListen(main) == main

\* the environments the process is started in: how the module is loaded,
\* the PORT variable, and the files of ./public
Deployment(main, port, files) == [main |-> main, port |-> port, files |-> files]
\* no ./public (the repository as it is); an index file and a dotfile;
\* files named as the routes are; directories named as the routes are
AsShipped == Deployment(TRUE, Undefined, {})
WithDotFile == Deployment(TRUE, JStr("8080"), {<<"index.html">>, <<".env">>})
WithHealthFile == Deployment(TRUE, JStr(""), {<<"index.html">>, <<"health">>})
WithUsersFile == Deployment(FALSE, JStr("8080"), {<<"index.html">>, <<"api", "users">>})
WithRouteDirectories ==
    Deployment(FALSE, JStr("8080"),
               {<<"health", "index.html">>, <<"api", "users", "index.html">>})
Deployments == {AsShipped, WithDotFile, WithHealthFile, WithUsersFile}
StaticDeployments == {WithDotFile, WithHealthFile, WithUsersFile}
UsersDeployments == {AsShipped, WithUsersFile, WithRouteDirectories}
HealthDeployments == {WithDotFile, WithHealthFile, WithRouteDirectories}

Down == [listening |-> FALSE, port |-> None, announced |-> FALSE]

\* the process starts in one of the deployments, the wall clock at one of
\* the readings `clocks`
InitIn(deployments, clocks) ==
    /\ phase = "boot"
    /\ \E d \in deployments :
         /\ isMain = d.main
         /\ envPort = d.port
         /\ public = d.files
    /\ server = Down
    /\ wall \in clocks
    /\ mono = 0
    /\ inflight = {}
    /\ req = NoRequest
    /\ res = NoResponse
    /\ prevHealth = None
    /\ prevCreated = None
    /\ setBack = [since |-> FALSE, between |-> FALSE]

Init == InitIn(Deployments, {999})
InitStatic == InitIn(StaticDeployments, {999})
InitUsers == InitIn(UsersDeployments, ClockValues)
InitHealth == InitIn(HealthDeployments, ClockValues)

\* evaluating app.js: the application is built and, when the file is the
\* main module, app.listen(port) is called
Load ==
    /\ phase = "boot"
    /\ phase' = "loaded"
    /\ server' = IF ShouldListen(isMain)
                 THEN [listening |-> TRUE, port |-> Port(envPort), announced |-> FALSE]
                 ELSE Down
    /\ UNCHANGED <<isMain, envPort, public, wall, mono, inflight, req, res,
                   prevHealth, prevCreated, setBack>>

\* the callback of app.listen: console.log of the port
ListenCallback ==
    /\ server.listening
    /\ ~server.announced
    /\ server' = [server EXCEPT !.announced = TRUE]
    /\ UNCHANGED <<phase, isMain, envPort, public, wall, mono, inflight, req, res,
                   prevHealth, prevCreated, setBack>>

\* the end of one pass over the stack for request r, the other requests in
\* flight being `rest`: the response is written, or r waits in a layer
Settle(r, out, rest) ==
    /\ IF out.done
       THEN /\ req' = r
            /\ res' = Send(r, out.resp)
            /\ inflight' = rest
       ELSE /\ Cardinality(rest) < MaxInflight
            /\ [r |-> r, at |-> out.at] \notin rest
            /\ req' = NoRequest
            /\ res' = NoResponse
            /\ inflight' = rest \cup {[r |-> r, at |-> out.at]}
    /\ prevHealth' = IF res.body.kind = "health"
                     THEN [kind |-> "health", body |-> res.body, at |-> res.at]
                     ELSE prevHealth
    /\ prevCreated' = IF res.status = 201
                      THEN [kind |-> "created", id |-> res.body.user.id, at |-> res.at]
                      ELSE prevCreated
    /\ setBack' = IF out.done /\ Send(r, out.resp).body.kind = "health"
                  THEN [since |-> FALSE, between |-> setBack.since]
                  ELSE setBack
    /\ UNCHANGED <<phase, isMain, envPort, server, public, wall, mono>>

\* the clocks and files a pass over the stack sees
Env(unparsed) == [now |-> wall, up |-> mono, files |-> public, unparsed |-> unparsed]
Unparsed(r) == IF r.body.kind \in {"none", "text"} THEN UnparsedBodies ELSE {EmptyObject}

\* a request arrives (over the listener, which accepts connections once it
\* is bound and its callback has run, or in-process from the module that
\* loaded the application) and enters the stack
Receive(requests) ==
    /\ phase = "loaded"
    /\ server.listening => server.announced
    /\ \E r \in requests : \E unparsed \in Unparsed(r) :
         Settle(r, Dispatch(1, FALSE, Undefined, r, Env(unparsed), FALSE), inflight)

\* a pass goes on in the callback of the layer the request waited in
Resume(p) ==
    \E unparsed \in Unparsed(p.r) :
        Settle(p.r,
               Dispatch(p.at, FALSE, BodyBefore(p.at, p.r, unparsed), p.r,
                        Env(unparsed), TRUE),
               inflight \ {p})

\* the body of a request has been read: express.json() parses it
BodyRead == \E p \in inflight : Stack[p.at] = "json" /\ Resume(p)

\* the file-system lookup of express.static has returned
LookupDone == \E p \in inflight : Stack[p.at] = "static" /\ Resume(p)

\* monotonic time passes
TickMono ==
    /\ mono < MaxMono
    /\ mono' = mono + 1
    /\ UNCHANGED <<phase, isMain, envPort, server, public, wall, inflight, req, res,
                   prevHealth, prevCreated, setBack>>

\* the wall clock advances
TickWall ==
    /\ \E w \in ClockValues : w > wall /\ wall' = w
    /\ UNCHANGED <<phase, isMain, envPort, server, public, mono, inflight, req, res,
                   prevHealth, prevCreated, setBack>>

\* the wall clock is set back (an NTP step, an administrator)
SetClockBack ==
    /\ \E w \in ClockValues : w < wall /\ wall' = w
    /\ setBack' = [setBack EXCEPT
                      !.since = (res.body.kind = "health" \/ prevHealth # None)]
    /\ UNCHANGED <<phase, isMain, envPort, server, public, mono, inflight, req, res,
                   prevHealth, prevCreated>>

\* requests of every method on every path, with and without a body that
\* fails to parse: routing, the static stage, the fallbacks, start-up (the
\* clocks, on which only ids and timestamps depend, stand still here)
ReceiveAny == Receive(RoutingRequests)
Next ==
    \/ Load
    \/ ListenCallback
    \/ ReceiveAny
    \/ BodyRead
    \/ LookupDone

Spec == Init /\ [][Next]_vars

\* the static stage: files, directories, dotfiles, conditional and range
\* requests
ReceiveStatic == Receive(StaticRequests)
NextStatic ==
    \/ Load
    \/ ListenCallback
    \/ ReceiveStatic
    \/ BodyRead
    \/ LookupDone

SpecStatic == InitStatic /\ [][NextStatic]_vars

\* the users API under a wall clock that advances and is set back
ReceiveUsers == Receive(UsersRequests)
NextUsers ==
    \/ Load
    \/ ListenCallback
    \/ ReceiveUsers
    \/ BodyRead
    \/ LookupDone
    \/ TickWall
    \/ SetClockBack

SpecUsers == InitUsers /\ [][NextUsers]_vars

\* the health check under both clocks
ReceiveHealth == Receive(HealthRequests)
NextHealth ==
    \/ Load
    \/ ListenCallback
    \/ ReceiveHealth
    \/ BodyRead
    \/ LookupDone
    \/ TickMono
    \/ TickWall
    \/ SetClockBack

SpecHealth == InitHealth /\ [][NextHealth]_vars

-----------------------------------------------------------------------------
(* Vocabulary of the properties, stated on the last request and response *)

\* the values JavaScript treats as false, among JSON values and undefined
Falsy(v) == v \in {Undefined, JNull, JBool(FALSE), JNum(0), JStr("")}

\* the request's body was parsed as JSON (an object or an array)
BodyParsed == req.body.kind \in {"object", "array"}
\* the request's body is declared as JSON and fails to parse
BodyFails == req.body.kind \in {"malformed", "primitive"}
\* the fields of the parsed body (an array has neither)
NameOf == IF req.body.kind = "object" THEN req.body.name ELSE Undefined
EmailOf == IF req.body.kind = "object" THEN req.body.email ELSE Undefined

OnHealthPath == req.path \in {HealthPath, HealthPathVariant}
OnUsersPath == req.path = UsersPath
IsPostUsers == req.method = "POST" /\ OnUsersPath
\* the request asks to read: GET or HEAD
Reads == req.method \in {"GET", "HEAD"}
\* the path names a file of ./public
PathIsFile == ~req.path.slash /\ req.path.segs \in public
\* the path, without a trailing slash, names a directory of ./public
PathIsDirectory ==
    /\ ~req.path.slash
    /\ \E f \in public :
         /\ Len(f) > Len(req.path.segs)
         /\ \A i \in 1..Len(req.path.segs) : f[i] = req.path.segs[i]
\* the path, with a trailing slash, names a directory that holds index.html
PathHasIndex == req.path.slash /\ Append(req.path.segs, "index.html") \in public
\* the path names a dotfile
PathIsDotFile == req.path = EnvPath
\* the path names something the static stage answers a GET or HEAD for
PathIsStatic == ~PathIsDotFile /\ (PathIsFile \/ PathIsDirectory \/ PathHasIndex)
\* the request carries If-None-Match: *
IfNoneMatch == req.cond = "if-none-match"
\* the request is one a route answers, as Express matches routes
OnRoute ==
    \/ req.method \in {"GET", "HEAD"} /\ (OnHealthPath \/ OnUsersPath)
    \/ IsPostUsers

\* the body as the client receives it: a HEAD request is answered without one
Received(body) == IF req.method = "HEAD" THEN EmptyBody ELSE body

RequiredError == ErrorBody("Name and email are required")
WentWrong == ErrorBody("Something went wrong!")
RouteNotFound == ErrorBody("Route not found")
TwoFixedUsers ==
    <<[id |-> 1, name |-> JStr("John Doe"), email |-> JStr("john@example.com")],
      [id |-> 2, name |-> JStr("Jane Smith"), email |-> JStr("jane@example.com")]>>

-----------------------------------------------------------------------------
(* Properties *)

\* C1: a POST /api/users whose parsed body has name or email missing or
\* falsy (the empty object included) is answered 400 with exactly
\* {error: "Name and email are required"}, never 201.
C1_MissingFieldRejected ==
    (IsPostUsers /\ BodyParsed /\ (Falsy(NameOf) \/ Falsy(EmailOf)))
        => /\ res.status = 400
           /\ res.type = "json"
           /\ res.body = RequiredError
C1_Witness ==
    /\ IsPostUsers
    /\ req.body = ObjectBody(JStr("Alice"), Undefined)
    /\ res.status = 400

\* C2: a POST /api/users whose parsed body has name and email both truthy,
\* of any JSON type, is answered 201 with {id, name, email}: name and email
\* are the request's values unchanged and id is the clock value, in epoch
\* milliseconds, read while handling the request (a positive integer).
C2_Answer ==
    (IsPostUsers /\ BodyParsed /\ ~Falsy(NameOf) /\ ~Falsy(EmailOf))
        => /\ res.status = 201
           /\ res.type = "json"
           /\ res.body = [kind |-> "user",
                          user |-> [id |-> res.at, name |-> NameOf, email |-> EmailOf]]
           /\ res.body.user.id \in Nat \ {0}
C2_ClockRead == (res' # res /\ res'.status = 201) => res'.at = wall
C2_Created == [](C2_Answer) /\ [][C2_ClockRead]_vars
C2_Witness ==
    /\ IsPostUsers
    /\ req.body = ObjectBody(JNum(7), JBool(TRUE))
    /\ res.status = 201
    /\ res.body.user.name = JNum(7)

C5_Original ==
    (req # NoRequest /\ ~PathIsFile /\ ~OnRoute)
        => /\ res.status = 404
           /\ res.body = Received(RouteNotFound)
\* C5 amended: a request whose body does not fail to parse and that matches
\* neither what the static stage answers (asked with GET or HEAD: a file of
\* ./public that is not a dotfile, a directory of it asked without a
\* trailing slash, a directory of it that holds index.html asked with one)
\* nor a route (as Express matches: GET routes also answer HEAD, paths
\* compare without case and with an optional trailing slash) is answered
\* 404 with exactly {error: "Route not found"} (HEAD: the status alone); a
\* known path asked with another method (POST /health, OPTIONS /api/users),
\* a dotfile and a directory without index.html asked with a trailing slash
\* are such requests.
C5_NotFound ==
    (/\ req # NoRequest
     /\ ~BodyFails
     /\ ~(Reads /\ PathIsStatic)
     /\ ~OnRoute)
        => /\ res.status = 404
           /\ res.type = "json"
           /\ res.body = Received(RouteNotFound)
C5_Witness ==
    /\ req.method = "POST"
    /\ req.path = HealthPath
    /\ res.status = 404
    /\ res.body = RouteNotFound

\* C6 as stated (on requests that carry no body): every GET /health,
\* whatever came before and whatever files ./public holds, is answered 200
\* with a body whose status is "healthy".
C6_Original ==
    (req.method = "GET" /\ req.path = HealthPath /\ req.body = NoBody)
        => /\ res.status = 200
           /\ res.body.kind = "health"
           /\ res.body.status = "healthy"
\* C6 amended: every GET /health whose body does not fail to parse and
\* which does not carry If-None-Match: *, in a process whose ./public holds
\* neither a file nor a directory named health, is answered 200 with a body
\* whose status is "healthy", whatever requests came before.
C6_Healthy ==
    (/\ req.method = "GET" /\ req.path = HealthPath
     /\ ~BodyFails
     /\ ~PathIsFile /\ ~PathIsDirectory
     /\ ~IfNoneMatch)
        => /\ res.status = 200
           /\ res.type = "json"
           /\ res.body.kind = "health"
           /\ res.body.status = "healthy"
C6_Witness ==
    /\ req.method = "GET" /\ req.path = HealthPath
    /\ prevCreated # None
    /\ public # {}
    /\ res.status = 200
    /\ res.body.kind = "health"

\* C7 as stated: from one GET /health answer to the next, uptime is >= 0 and
\* does not decrease, and timestamp does not decrease.
C7_Original ==
    (res.body.kind = "health" /\ prevHealth # None)
        => /\ UptimeLeq(Uptime(0), res.body.uptime)
           /\ UptimeLeq(prevHealth.body.uptime, res.body.uptime)
           /\ LexLeq(prevHealth.body.timestamp, res.body.timestamp)
\* C7 amended: from one GET /health answer to the next, uptime is >= 0 and
\* does not decrease; timestamp is the system clock at the call, so it does
\* not decrease from one answer to the next when the clock was not set back
\* between the two calls (when it was, the timestamp may decrease).
C7_Monotone ==
    /\ res.body.kind = "health" => UptimeLeq(Uptime(0), res.body.uptime)
    /\ (res.body.kind = "health" /\ prevHealth # None)
          => /\ UptimeLeq(prevHealth.body.uptime, res.body.uptime)
             /\ (~setBack.between
                    => LexLeq(prevHealth.body.timestamp, res.body.timestamp))
C7_Witness ==
    /\ res.body.kind = "health"
    /\ prevHealth # None
    /\ ~setBack.between
    /\ prevHealth.body.timestamp # res.body.timestamp
    /\ prevHealth.body.uptime # res.body.uptime

\* C8 as stated (on requests that carry no body): a request whose path is a
\* file of ./public is answered with that file by the static stage, before
\* any route or the 404 handler.
C8_Original ==
    (req # NoRequest /\ PathIsFile /\ req.body = NoBody)
        => /\ res.stage = "static"
           /\ res.status = 200
\* C8 amended: a GET or HEAD request whose body does not fail to parse and
\* whose path is a file of ./public, not a dotfile, is dealt with by the
\* static stage before any route or the 404 handler, and never reaches
\* them: without conditional or range headers it is answered 200 with that
\* file (its bytes for GET, the headers alone for HEAD); with
\* If-None-Match: * it is answered 304 without content, with a range the
\* file satisfies 206 with the part; a precondition or a range that fails
\* is passed to the error handler, which answers 500.  Only a request with
\* another method, or whose path is no such file, goes on to the routes and
\* the 404 handler.
C8_StaticFirst ==
    /\ (Reads /\ PathIsFile /\ ~PathIsDotFile /\ ~BodyFails)
          => /\ res.stage \in {"static", "errorHandler"}
             /\ req.cond = "none"
                   => /\ res.stage = "static"
                      /\ res.status = 200
                      /\ res.body = IF req.method = "GET"
                                    THEN [kind |-> "file", file |-> req.path.segs]
                                    ELSE EmptyBody
             /\ req.cond = "if-none-match"
                   => /\ res.stage = "static"
                      /\ res.status = 304
                      /\ res.body = EmptyBody
             /\ req.cond = "range"
                   => /\ res.stage = "static"
                      /\ res.status = 206
                      /\ res.body = Received([kind |-> "partial", file |-> req.path.segs])
             /\ req.cond \in {"if-match", "range-beyond"}
                   => /\ res.stage = "errorHandler"
                      /\ res.status = 500
    /\ res.stage \in {"health", "getUsers", "postUsers", "notFound"}
          => ~(Reads /\ PathIsFile /\ ~PathIsDotFile)
C8_Witness ==
    /\ req.method = "GET" /\ req.path = HealthPath
    /\ PathIsFile
    /\ res.stage = "static"
    /\ res.body = [kind |-> "file", file |-> <<"health">>]

\* C9: the listener is started only when the module is the main module, and
\* then on the port PORT gives, or 3000 when PORT is unset; a module loaded
\* by another module never has a listener, and still answers requests made
\* on the application object.
C9_ListenOnlyAsMain ==
    /\ server.listening => isMain
    /\ (phase = "loaded" /\ isMain) => server.listening
    /\ (server.listening /\ envPort = Undefined) => server.port = JNum(3000)
    /\ (server.listening /\ envPort \notin {Undefined, JStr("")})
          => server.port = envPort
    /\ ~isMain => server = [listening |-> FALSE, port |-> None, announced |-> FALSE]
C9_Witness ==
    /\ phase = "loaded"
    /\ ~isMain
    /\ ~server.listening
    /\ res.status = 201

\* C10: ids are not unique: two successful POST /api/users handled at the
\* same clock reading get the same id, and two successful requests get
\* different ids only when their handlers read different clock values.
C10_SameClockSameId ==
    (res.status = 201 /\ prevCreated # None)
        => (res.body.user.id = prevCreated.id <=> res.at = prevCreated.at)
C10_Witness ==
    /\ res.status = 201
    /\ prevCreated # None
    /\ res.body.user.id = prevCreated.id
    /\ res.at = prevCreated.at

====
